---- MODULE Spec2Model ----
(***************************************************************************)
(* State-machine model of MessageFeedsController                           *)
(* (src/Shared/messages/MessageFeedsController.cpp): listener              *)
(* registration, datagram ingestion and routing, configuration through     *)
(* setProperties, the location broadcast switch and the renderer cache.    *)
(*                                                                         *)
(* A QString is modelled as a sequence of lexemes: the separator ":" is a  *)
(* lexeme of its own and no other lexeme contains a colon, so              *)
(* QString::split(":") is computed on the sequence.                        *)
(***************************************************************************)
EXTENDS Integers, Sequences, FiniteSets, TLC

\* ---------------------------------------------------------------- bounds
\* listeners the host application owns and may add or remove itself
NumUserListeners == 1
\* listeners setProperties may create over a run (one per configured port)
MaxCreated == 2
\* length of m_messageListeners
MaxListenerList == 2
\* feeds in the feed list model
MaxFeeds == 2
\* locationBroadcastEnabledChanged emissions counted
MaxNotify == 2
\* datagrams whose receipt and delivery are recorded
MaxTrace == 3

\* ------------------------------------------------------------ QString
Colon == ":"
EmptyStr == << >>

Str(lexeme) == << lexeme >>

\* QString::toLower on the lexemes that occur
ToLowerLexeme(x) ==
  CASE x = "MIL2525C" -> "mil2525c"
    [] x = "MIL2525D" -> "mil2525d"
    [] x = "Mil2525c" -> "mil2525c"
    [] OTHER -> x

ToLower(s) == [i \in 1..Len(s) |-> ToLowerLexeme(s[i])]

\* QString::compare(other, Qt::CaseInsensitive) == 0
EqualsIgnoreCase(s, t) == ToLower(s) = ToLower(t)

\* QString::split(":"): the parts between separators, empty parts kept
RECURSIVE SplitFrom(_, _, _)
SplitFrom(s, i, cur) ==
  IF i > Len(s) THEN << cur >>
  ELSE IF s[i] = Colon THEN << cur >> \o SplitFrom(s, i + 1, EmptyStr)
  ELSE SplitFrom(s, i + 1, Append(cur, s[i]))

Split(s) == SplitFrom(s, 1, EmptyStr)

\* QString::toInt on the port strings that occur (0 when not a number)
ToInt(s) ==
  CASE s = Str("4000") -> 4000
    [] s = Str("4001") -> 4001
    [] OTHER -> 0

\* ------------------------------------------------------------ messages
\* identifier of a default-constructed Message (no identifier)
NoId == "none"
MessageIds == {NoId, "b1", "b2"}
MessageTypes == {Str("friendly"), Str("hostile")}

\* A default-constructed Message: what Message::create returns for bytes it
\* cannot decode
EmptyMessage == [empty |-> TRUE, messageType |-> EmptyStr, messageId |-> NoId]

\* Datagram payloads: bytes the decoder rejects, or an encoded type and id
Garbage == [decodes |-> FALSE, type |-> EmptyStr, id |-> NoId]
Datagrams ==
  {Garbage} \cup [decodes : {TRUE}, type : MessageTypes, id : MessageIds]

\* Message::create(bytes)
MessageCreate(bytes) ==
  IF bytes.decodes
  THEN [empty |-> FALSE, messageType |-> bytes.type, messageId |-> bytes.id]
  ELSE EmptyMessage

\* Message::isEmpty()
IsEmpty(m) == m.empty

\* --------------------------------------------------------------- state
VARIABLES
  m_messageListeners,   \* QList<MessageListener*>
  connections,          \* listener -> connections of messageReceived to the controller
  sockets,              \* the sockets of the listeners setProperties created, in creation order
  m_messageFeeds,       \* the feed list model: feeds in insertion order
  m_resourcePath,
  lbEnabled,            \* LocationBroadcast::isEnabled()
  lbMessageId,          \* LocationBroadcast::message().messageId()
  lbFrequency,
  lbMessageType,
  lbUdpPort,
  styleMil2525c,        \* static dictionarySymbolStyleMil2525c
  styleMil2525d,        \* static dictionarySymbolStyleMil2525d
  enabledChangedCount,  \* locationBroadcastEnabledChanged emissions so far
  flipCount,            \* history: changes of lbEnabled so far
  requestedEnabled,     \* history: argument of the last setLocationBroadcastEnabled call
  prevSentId,           \* history: identifier the broadcast sent before the current one
  removedSince,         \* history: listeners removed and not added again since
  ev,                   \* history: the last operation, its inputs, what it did, the state before it
  trace                 \* history, kept while trace.on: the datagrams received and the
                        \* addMessage calls made, each in order of occurrence

prog == << m_messageListeners, connections, sockets, m_messageFeeds, m_resourcePath,
           lbEnabled, lbMessageId, lbFrequency, lbMessageType, lbUdpPort,
           styleMil2525c, styleMil2525d, enabledChangedCount >>
hist == << flipCount, requestedEnabled, prevSentId, removedSince, ev, trace >>
vars == << prog, hist >>

\* ----------------------------------------------------------- listeners
NullListener == 0
UserListeners == 1..NumUserListeners
AllListeners == 1..(NumUserListeners + MaxCreated)
\* the listener created with the k-th socket
CreatedListener(k) == NumUserListeners + k
ExistingListeners == UserListeners \cup {CreatedListener(k) : k \in 1..Len(sockets)}

\* QList::removeOne: removes the first occurrence, if any
RECURSIVE RemoveOne(_, _)
RemoveOne(list, x) ==
  IF list = << >> THEN << >>
  ELSE IF Head(list) = x THEN Tail(list)
  ELSE << Head(list) >> \o RemoveOne(Tail(list), x)

Count(list, x) == Cardinality({i \in 1..Len(list) : list[i] = x})

\* --------------------------------------------------------------- feeds
\* MessageFeedListModel::messageFeedByType: position of the feed that lookup
\* by type returns (the most recently registered one of that type), 0 for nullptr
MessageFeedByType(feeds, type) ==
  LET hits == {i \in 1..Len(feeds) : feeds[i].feedMessageType = type}
  IN IF hits = {} THEN 0 ELSE CHOOSE i \in hits : \A j \in hits : j <= i

\* a static style pointer that is still nullptr
NullStyle == [loaded |-> FALSE, name |-> EmptyStr, path |-> EmptyStr]

\* ------------------------------------------------------- history record
\* the registry and the static styles an operation started from
Before == [feeds |-> m_messageFeeds, sc |-> styleMil2525c, sd |-> styleMil2525d]
NoBefore == [feeds |-> << >>, sc |-> NullStyle, sd |-> NullStyle]
\* the listener list and the connections an operation started from
RegBefore == [list |-> m_messageListeners, conns |-> connections]
NoReg == [list |-> << >>, conns |-> [l \in AllListeners |-> 0]]
NoProps == [resourceDirectory |-> EmptyStr, ports |-> << >>,
            feeds |-> << >>, broadcast |-> << >>]

\* the record of an operation `op`, before its inputs and outputs are filled in
Event(op) ==
  [op |-> op, listener |-> NullListener, bytes |-> Garbage, flag |-> FALSE,
   num |-> 0, props |-> NoProps, bind |-> << >>, outcomes |-> << >>,
   emitted |-> << >>, before |-> NoBefore, reg |-> NoReg]

\* ----------------------------------------------------------- ingestion
\* What one run of the slot did: result is "empty", "suppressed", "nofeed" or
\* "added"; for "added", feed is the position of the feed whose overlay got
\* addMessage(message)
Outcome(result, i, m) == [result |-> result, feed |-> i, message |-> m]

\* The slot with the isEnabled() test left out: the identifier alone suppresses
OnMessageReceived_IgnoresEnabled(bytes) ==
  LET m == MessageCreate(bytes)
      messageFeed == MessageFeedByType(m_messageFeeds, m.messageType)
  IN IF IsEmpty(m) THEN Outcome("empty", 0, m)
     ELSE IF lbMessageId = m.messageId THEN Outcome("suppressed", 0, m)
     ELSE IF messageFeed = 0 THEN Outcome("nofeed", 0, m)
     ELSE Outcome("added", messageFeed, m)

\* The slot with the isEmpty() test left out
OnMessageReceived_NoEmptyCheck(bytes) ==
  LET m == MessageCreate(bytes)
      messageFeed == MessageFeedByType(m_messageFeeds, m.messageType)
  IN IF lbEnabled /\ lbMessageId = m.messageId THEN Outcome("suppressed", 0, m)
     ELSE IF messageFeed = 0 THEN Outcome("nofeed", 0, m)
     ELSE Outcome("added", messageFeed, m)

\* The slot routing to the first feed of the list, whatever its type
OnMessageReceived_FirstFeed(bytes) ==
  LET m == MessageCreate(bytes)
      messageFeed == IF m_messageFeeds = << >> THEN 0 ELSE 1
  IN IF IsEmpty(m) THEN Outcome("empty", 0, m)
     ELSE IF lbEnabled /\ lbMessageId = m.messageId THEN Outcome("suppressed", 0, m)
     ELSE IF messageFeed = 0 THEN Outcome("nofeed", 0, m)
     ELSE Outcome("added", messageFeed, m)

\* The slot suppressing the broadcast's previous message as well
OnMessageReceived_SuppressesPrevious(bytes) ==
  LET m == MessageCreate(bytes)
      messageFeed == MessageFeedByType(m_messageFeeds, m.messageType)
  IN IF IsEmpty(m) THEN Outcome("empty", 0, m)
     ELSE IF lbEnabled /\ m.messageId \in {lbMessageId, prevSentId}
       THEN Outcome("suppressed", 0, m)
     ELSE IF messageFeed = 0 THEN Outcome("nofeed", 0, m)
     ELSE Outcome("added", messageFeed, m)

\* The slot routing to the oldest feed of the message's type
OnMessageReceived_OldestOfType(bytes) ==
  LET m == MessageCreate(bytes)
      hits == {i \in 1..Len(m_messageFeeds) :
                 m_messageFeeds[i].feedMessageType = m.messageType}
      messageFeed == IF hits = {} THEN 0 ELSE CHOOSE i \in hits : \A j \in hits : i <= j
  IN IF IsEmpty(m) THEN Outcome("empty", 0, m)
     ELSE IF lbEnabled /\ lbMessageId = m.messageId THEN Outcome("suppressed", 0, m)
     ELSE IF messageFeed = 0 THEN Outcome("nofeed", 0, m)
     ELSE Outcome("added", messageFeed, m)

\* The slot connected in addMessageListener, run once on `bytes`
OnMessageReceived(bytes) ==
  LET m == MessageCreate(bytes)
      messageFeed == MessageFeedByType(m_messageFeeds, m.messageType)
  IN IF IsEmpty(m) THEN Outcome("empty", 0, m)
     ELSE IF lbEnabled /\ lbMessageId = m.messageId THEN Outcome("suppressed", 0, m)
     ELSE IF messageFeed = 0 THEN Outcome("nofeed", 0, m)
     ELSE Outcome("added", messageFeed, m)

\* MessageListener emits messageReceived(bytes): each of the n connections of
\* the signal to the controller runs the slot, one after the other
EmitMessageReceived(bytes, n) == [k \in 1..n |-> OnMessageReceived(bytes)]

\* the addMessage calls among the slot runs `outs` of a datagram of listener l
IsAdded(o) == o.result = "added"
AddedBy(l, outs) ==
  LET added == SelectSeq(outs, IsAdded)
  IN [k \in 1..Len(added) |->
        [listener |-> l, feed |-> added[k].feed, message |-> added[k].message]]

\* a receipt that registers a feed for a message type that has none
ReceiveDatagram_RegistersUnknownType(l, bytes) ==
  LET outs == EmitMessageReceived(bytes, connections[l])
      m == MessageCreate(bytes)
      unknown == \E k \in 1..Len(outs) : outs[k].result = "nofeed"
  IN /\ Len(m_messageFeeds) < MaxFeeds
     /\ ev' = [Event("receive") EXCEPT !.listener = l, !.bytes = bytes,
                                       !.outcomes = outs]
     /\ m_messageFeeds' =
          IF unknown
          THEN Append(m_messageFeeds,
                      [feedName |-> m.messageType, feedMessageType |-> m.messageType,
                       renderer |-> [kind |-> "SimpleRenderer", style |-> NullStyle,
                                     image |-> EmptyStr, width |-> 40, height |-> 40]])
          ELSE m_messageFeeds
     /\ UNCHANGED << m_messageListeners, connections, sockets, m_resourcePath,
                     lbEnabled, lbMessageId, lbFrequency, lbMessageType, lbUdpPort,
                     styleMil2525c, styleMil2525d, enabledChangedCount,
                     flipCount, requestedEnabled, prevSentId, removedSince, trace >>

\* listener l receives one datagram
ReceiveDatagram(l, bytes) ==
  LET outs == EmitMessageReceived(bytes, connections[l])
  IN /\ trace.on => Len(trace.receipts) < MaxTrace
     /\ ev' = [Event("receive") EXCEPT !.listener = l, !.bytes = bytes,
                                       !.outcomes = outs]
     /\ trace' = IF trace.on
                 THEN [trace EXCEPT
                         !.receipts = Append(@, [listener |-> l, bytes |-> bytes]),
                         !.added = @ \o AddedBy(l, outs)]
                 ELSE trace
     /\ UNCHANGED << prog, flipCount, requestedEnabled, prevSentId, removedSince >>

\* ------------------------------------------------ listener registration
\* addMessageListener making the connection twice
AddListenerEffect_ConnectsTwice(list, conns, l) ==
  IF l = NullListener THEN [list |-> list, conns |-> conns]
  ELSE [list |-> Append(list, l), conns |-> [conns EXCEPT ![l] = @ + 2]]

\* what addMessageListener does to the list and the connections
AddListenerEffect(list, conns, l) ==
  IF l = NullListener THEN [list |-> list, conns |-> conns]
  ELSE [list |-> Append(list, l), conns |-> [conns EXCEPT ![l] = @ + 1]]

AddMessageListener(l) ==
  LET r == AddListenerEffect(m_messageListeners, connections, l)
  IN /\ Len(r.list) <= MaxListenerList
     /\ m_messageListeners' = r.list
     /\ connections' = r.conns
     /\ removedSince' = removedSince \ {l}
     /\ ev' = [Event("addMessageListener") EXCEPT !.listener = l]
     /\ UNCHANGED << sockets, m_messageFeeds, m_resourcePath,
                     lbEnabled, lbMessageId, lbFrequency, lbMessageType, lbUdpPort,
                     styleMil2525c, styleMil2525d, enabledChangedCount,
                     flipCount, requestedEnabled, prevSentId, trace >>

\* removeMessageListener disconnecting one connection only, as removeOne does
RemoveListenerEffect_DisconnectsOne(list, conns, l) ==
  IF l = NullListener THEN [list |-> list, conns |-> conns]
  ELSE [list |-> RemoveOne(list, l),
        conns |-> [conns EXCEPT ![l] = IF @ > 0 THEN @ - 1 ELSE 0]]

\* removeMessageListener disconnecting every sender from the controller
RemoveListenerEffect_DisconnectsAll(list, conns, l) ==
  IF l = NullListener THEN [list |-> list, conns |-> conns]
  ELSE [list |-> RemoveOne(list, l), conns |-> [x \in DOMAIN conns |-> 0]]

\* what removeMessageListener does to the list and the connections:
\* QObject::disconnect(sender, signal, receiver, nullptr) removes every
\* connection of the signal to the receiver
RemoveListenerEffect(list, conns, l) ==
  IF l = NullListener THEN [list |-> list, conns |-> conns]
  ELSE [list |-> RemoveOne(list, l), conns |-> [conns EXCEPT ![l] = 0]]

RemoveMessageListener(l) ==
  LET r == RemoveListenerEffect(m_messageListeners, connections, l)
  IN /\ m_messageListeners' = r.list
     /\ connections' = r.conns
     /\ removedSince' = IF l = NullListener THEN removedSince ELSE removedSince \cup {l}
     /\ ev' = [Event("removeMessageListener") EXCEPT !.listener = l,
                                                    !.reg = RegBefore]
     /\ UNCHANGED << sockets, m_messageFeeds, m_resourcePath,
                     lbEnabled, lbMessageId, lbFrequency, lbMessageType, lbUdpPort,
                     styleMil2525c, styleMil2525d, enabledChangedCount,
                     flipCount, requestedEnabled, prevSentId, trace >>

\* ---------------------------------------------------- location broadcast
\* setLocationBroadcastEnabled without the early return
SetEnabledEffect_AlwaysEmits(enabled, v) == [enabled |-> v, emitted |-> 1]

\* setLocationBroadcastEnabled passing `true` to setEnabled whatever v is
SetEnabledEffect_NeverDisables(enabled, v) ==
  IF enabled = v THEN [enabled |-> enabled, emitted |-> 0]
  ELSE [enabled |-> TRUE, emitted |-> 1]

\* what setLocationBroadcastEnabled(v) does to the enabled flag, and how many
\* locationBroadcastEnabledChanged signals it emits
SetEnabledEffect(enabled, v) ==
  IF enabled = v THEN [enabled |-> enabled, emitted |-> 0]
  ELSE [enabled |-> v, emitted |-> 1]

SetLocationBroadcastEnabled(v) ==
  LET r == SetEnabledEffect(lbEnabled, v)
  IN /\ enabledChangedCount + r.emitted <= MaxNotify
     /\ lbEnabled' = r.enabled
     /\ enabledChangedCount' = enabledChangedCount + r.emitted
     /\ flipCount' = IF r.enabled # lbEnabled THEN flipCount + 1 ELSE flipCount
     /\ requestedEnabled' = v
     /\ ev' = [Event("setLocationBroadcastEnabled") EXCEPT !.flag = v,
                 !.emitted = [i \in 1..r.emitted |-> "locationBroadcastEnabledChanged"]]
     /\ UNCHANGED << m_messageListeners, connections, sockets, m_messageFeeds,
                     m_resourcePath, lbMessageId, lbFrequency, lbMessageType,
                     lbUdpPort, styleMil2525c, styleMil2525d, prevSentId, removedSince, trace >>

Frequencies == {1000, 3000}

SetFrequencyEffect(frequency, f) ==
  IF frequency = f THEN [frequency |-> frequency, emitted |-> << >>]
  ELSE [frequency |-> f, emitted |-> << "locationBroadcastFrequencyChanged" >>]

SetLocationBroadcastFrequency(f) ==
  LET r == SetFrequencyEffect(lbFrequency, f)
  IN /\ lbFrequency' = r.frequency
     /\ ev' = [Event("setLocationBroadcastFrequency") EXCEPT !.num = f,
                                                            !.emitted = r.emitted]
     /\ UNCHANGED << m_messageListeners, connections, sockets, m_messageFeeds,
                     m_resourcePath, lbEnabled, lbMessageId, lbMessageType, lbUdpPort,
                     styleMil2525c, styleMil2525d, enabledChangedCount,
                     flipCount, requestedEnabled, prevSentId, removedSince, trace >>

\* The broadcast's timer fires: a message with the fresh identifier `id` is
\* sent and becomes the broadcast's current message.  The timer runs only
\* while the broadcast is enabled.
BroadcastSend(id) ==
  /\ lbEnabled
  /\ id # lbMessageId
  /\ lbMessageId' = id
  /\ prevSentId' = lbMessageId
  /\ ev' = [Event("broadcastSend") EXCEPT !.bytes =
              [decodes |-> TRUE, type |-> lbMessageType, id |-> id]]
  /\ UNCHANGED << m_messageListeners, connections, sockets, m_messageFeeds,
                  m_resourcePath, lbEnabled, lbFrequency, lbMessageType, lbUdpPort,
                  styleMil2525c, styleMil2525d, enabledChangedCount,
                  flipCount, requestedEnabled, removedSince, trace >>

\* ------------------------------------------------------------ renderers
LoadStyle(name, path) == [loaded |-> TRUE, name |-> name, path |-> path]

\* createRenderer without the tests of the static pointers: a style is loaded
\* on every call
CreateRenderer_LoadsEveryTime(rendererInfo, path, sc, sd) ==
  IF EqualsIgnoreCase(rendererInfo, Str("mil2525c"))
    THEN LET style == LoadStyle(Str("mil2525c_b2"), path \o Str("/styles/mil2525c_b2.stylx"))
         IN [renderer |-> [kind |-> "DictionaryRenderer", style |-> style,
                           image |-> EmptyStr, width |-> 0, height |-> 0],
             sc |-> style, sd |-> sd]
  ELSE IF EqualsIgnoreCase(rendererInfo, Str("mil2525d"))
    THEN LET style == LoadStyle(Str("mil2525d"), path \o Str("/styles/mil2525d.stylx"))
         IN [renderer |-> [kind |-> "DictionaryRenderer", style |-> style,
                           image |-> EmptyStr, width |-> 0, height |-> 0],
             sc |-> sc, sd |-> style]
  ELSE [renderer |-> [kind |-> "SimpleRenderer", style |-> NullStyle,
                      image |-> Str(":/Resources/icons/xhdpi/message/") \o rendererInfo,
                      width |-> 40, height |-> 40],
        sc |-> sc, sd |-> sd]

\* createRenderer(rendererInfo) with resource path `path` and the two static
\* styles sc, sd: the renderer, and the statics afterwards
CreateRenderer(rendererInfo, path, sc, sd) ==
  IF EqualsIgnoreCase(rendererInfo, Str("mil2525c"))
    THEN LET style == IF ~sc.loaded
                      THEN LoadStyle(Str("mil2525c_b2"), path \o Str("/styles/mil2525c_b2.stylx"))
                      ELSE sc
         IN [renderer |-> [kind |-> "DictionaryRenderer", style |-> style,
                           image |-> EmptyStr, width |-> 0, height |-> 0],
             sc |-> style, sd |-> sd]
  ELSE IF EqualsIgnoreCase(rendererInfo, Str("mil2525d"))
    THEN LET style == IF ~sd.loaded
                      THEN LoadStyle(Str("mil2525d"), path \o Str("/styles/mil2525d.stylx"))
                      ELSE sd
         IN [renderer |-> [kind |-> "DictionaryRenderer", style |-> style,
                           image |-> EmptyStr, width |-> 0, height |-> 0],
             sc |-> sc, sd |-> style]
  ELSE [renderer |-> [kind |-> "SimpleRenderer", style |-> NullStyle,
                      image |-> Str(":/Resources/icons/xhdpi/message/") \o rendererInfo,
                      width |-> 40, height |-> 40],
        sc |-> sc, sd |-> sd]

\* ------------------------------------------------------- setProperties
\* setResourcePath: the path afterwards and the signals emitted
SetResourcePathEffect(current, resourcePath) ==
  IF resourcePath = current THEN [path |-> current, emitted |-> << >>]
  ELSE [path |-> resourcePath, emitted |-> << "propertyChanged" >>]

\* The loop adding no listener for a socket that failed to bind
RECURSIVE AddPortListeners_SkipsUnbound(_, _, _)
AddPortListeners_SkipsUnbound(ports, bind, acc) ==
  IF ports = << >> THEN acc
  ELSE LET socket == [port |-> ToInt(Head(ports)), bound |-> Head(bind)]
           l == CreatedListener(Len(acc.sockets) + 1)
           r == IF Head(bind) THEN AddListenerEffect(acc.list, acc.conns, l)
                ELSE [list |-> acc.list, conns |-> acc.conns]
       IN AddPortListeners_SkipsUnbound(Tail(ports), Tail(bind),
            [list |-> r.list, conns |-> r.conns, sockets |-> Append(acc.sockets, socket)])

\* The loop over MessageFeedUdpPorts: one socket, bound or not, and one added
\* listener per port.  acc = [list, conns, sockets]
RECURSIVE AddPortListeners(_, _, _)
AddPortListeners(ports, bind, acc) ==
  IF ports = << >> THEN acc
  ELSE LET socket == [port |-> ToInt(Head(ports)), bound |-> Head(bind)]
           l == CreatedListener(Len(acc.sockets) + 1)
           r == AddListenerEffect(acc.list, acc.conns, l)
       IN AddPortListeners(Tail(ports), Tail(bind),
            [list |-> r.list, conns |-> r.conns, sockets |-> Append(acc.sockets, socket)])

\* The loop with the feed's type taken from part 0, the name
RECURSIVE AddConfiguredFeeds_TypeFromName(_, _, _)
AddConfiguredFeeds_TypeFromName(entries, path, acc) ==
  IF entries = << >> THEN acc
  ELSE LET messageFeedConfig == Split(Head(entries))
       IN IF Len(messageFeedConfig) # 3
            THEN AddConfiguredFeeds_TypeFromName(Tail(entries), path, acc)
          ELSE LET r == CreateRenderer(messageFeedConfig[3], path, acc.sc, acc.sd)
                   feed == [feedName |-> messageFeedConfig[1],
                            feedMessageType |-> messageFeedConfig[1],
                            renderer |-> r.renderer]
               IN AddConfiguredFeeds_TypeFromName(Tail(entries), path,
                    [feeds |-> Append(acc.feeds, feed), sc |-> r.sc, sd |-> r.sd])

\* The loop with `break` for `continue`: a malformed entry ends it
RECURSIVE AddConfiguredFeeds_StopsAtMalformed(_, _, _)
AddConfiguredFeeds_StopsAtMalformed(entries, path, acc) ==
  IF entries = << >> THEN acc
  ELSE LET messageFeedConfig == Split(Head(entries))
       IN IF Len(messageFeedConfig) # 3
            THEN acc
          ELSE LET r == CreateRenderer(messageFeedConfig[3], path, acc.sc, acc.sd)
                   feed == [feedName |-> messageFeedConfig[1],
                            feedMessageType |-> messageFeedConfig[2],
                            renderer |-> r.renderer]
               IN AddConfiguredFeeds_StopsAtMalformed(Tail(entries), path,
                    [feeds |-> Append(acc.feeds, feed), sc |-> r.sc, sd |-> r.sd])

\* The loop over MessageFeeds: entries that do not split into three parts are
\* skipped, each other entry appends one feed (with an overlay of its own).
\* acc = [feeds, sc, sd]
RECURSIVE AddConfiguredFeeds(_, _, _)
AddConfiguredFeeds(entries, path, acc) ==
  IF entries = << >> THEN acc
  ELSE LET messageFeedConfig == Split(Head(entries))
       IN IF Len(messageFeedConfig) # 3
            THEN AddConfiguredFeeds(Tail(entries), path, acc)
          ELSE LET r == CreateRenderer(messageFeedConfig[3], path, acc.sc, acc.sd)
                   feed == [feedName |-> messageFeedConfig[1],
                            feedMessageType |-> messageFeedConfig[2],
                            renderer |-> r.renderer]
               IN AddConfiguredFeeds(Tail(entries), path,
                    [feeds |-> Append(acc.feeds, feed), sc |-> r.sc, sd |-> r.sd])

\* The LocationBroadcastConfig step applied to every list of two or more elements
BroadcastConfigEffect_AtLeastTwo(config, type, port) ==
  IF Len(config) >= 2 THEN [type |-> config[1], port |-> ToInt(config[2])]
  ELSE [type |-> type, port |-> port]

\* The LocationBroadcastConfig step: applied only when the list has two elements
BroadcastConfigEffect(config, type, port) ==
  IF Len(config) = 2 THEN [type |-> config[1], port |-> ToInt(config[2])]
  ELSE [type |-> type, port |-> port]

\* setProperties(props); bind[i] tells whether binding the i-th port succeeds
SetProperties(props, bind) ==
  LET rp == SetResourcePathEffect(m_resourcePath, props.resourceDirectory)
      ls == AddPortListeners(props.ports, bind,
              [list |-> m_messageListeners, conns |-> connections, sockets |-> sockets])
      fs == AddConfiguredFeeds(props.feeds, rp.path,
              [feeds |-> m_messageFeeds, sc |-> styleMil2525c, sd |-> styleMil2525d])
      bc == BroadcastConfigEffect(props.broadcast, lbMessageType, lbUdpPort)
  IN /\ Len(bind) = Len(props.ports)
     /\ Len(sockets) + Len(props.ports) <= MaxCreated
     /\ Len(ls.list) <= MaxListenerList
     /\ Len(fs.feeds) <= MaxFeeds
     /\ m_resourcePath' = rp.path
     /\ m_messageListeners' = ls.list
     /\ connections' = ls.conns
     /\ sockets' = ls.sockets
     /\ m_messageFeeds' = fs.feeds
     /\ styleMil2525c' = fs.sc
     /\ styleMil2525d' = fs.sd
     /\ lbMessageType' = bc.type
     /\ lbUdpPort' = bc.port
     /\ ev' = [Event("setProperties") EXCEPT !.props = props, !.bind = bind,
                                            !.emitted = rp.emitted,
                                            !.before = Before,
                                            !.reg = RegBefore]
     /\ UNCHANGED << lbEnabled, lbMessageId, lbFrequency, enabledChangedCount,
                     flipCount, requestedEnabled, prevSentId, removedSince, trace >>

\* -------------------------------------------------------------- inputs
FriendlyEntry == << "Friendly", ":", "friendly", ":", "icon_a.png" >>
HostileEntry == << "Hostile", ":", "hostile", ":", "mil2525c" >>
BlankEntry == << ":", ":" >>
TwoPartEntry == << "Bad", ":", "friendly" >>
FourPartEntry == << "Bad", ":", "friendly", ":", "icon_a.png", ":", "x" >>

BroadcastIds == MessageIds \ {NoId}

SeqsUpTo(S, n) == UNION {[1..k -> S] : k \in 0..n}

BindOutcomes(props) == [1..Len(props.ports) -> BOOLEAN]

\* configurations applied while messages flow
IngestProps ==
  { [resourceDirectory |-> Str("/data"), ports |-> << Str("4000") >>,
     feeds |-> << FriendlyEntry >>, broadcast |-> << Str("friendly"), Str("4001") >>],
    [resourceDirectory |-> EmptyStr, ports |-> << >>,
     feeds |-> << BlankEntry, TwoPartEntry >>, broadcast |-> << >>] }

\* --------------------------------------------------------------- Init
InitController ==
  /\ m_messageListeners = << >>
  /\ connections = [l \in AllListeners |-> 0]
  /\ sockets = << >>
  /\ m_messageFeeds = << >>
  /\ m_resourcePath = EmptyStr
  /\ lbEnabled = FALSE
  /\ lbMessageId = NoId
  /\ lbFrequency = 3000
  /\ lbMessageType = EmptyStr
  /\ lbUdpPort = 0
  /\ styleMil2525c = NullStyle
  /\ styleMil2525d = NullStyle
  /\ enabledChangedCount = 0
  /\ flipCount = 0
  /\ requestedEnabled = FALSE
  /\ prevSentId = NoId
  /\ removedSince = {}
  /\ ev = Event("init")

NoTrace == [on |-> FALSE, receipts |-> << >>, added |-> << >>]

Init == InitController /\ trace = NoTrace

\* --------------------------------------------------------------- Next
\* Ingestion and the location broadcast: listeners are added and receive
\* datagrams while the broadcast is switched, sends, and feeds are configured
Next ==
  \/ \E l \in ExistingListeners \cup {NullListener} : AddMessageListener(l)
  \/ \E l \in ExistingListeners, bytes \in Datagrams : ReceiveDatagram(l, bytes)
  \/ \E v \in BOOLEAN : SetLocationBroadcastEnabled(v)
  \/ \E id \in BroadcastIds : BroadcastSend(id)
  \/ \E props \in IngestProps : \E bind \in BindOutcomes(props) : SetProperties(props, bind)

Spec == Init /\ [][Next]_vars

\* the decodable datagrams with one identifier, one per message type
ConfigDatagrams == {d \in Datagrams : d.decodes /\ d.id = "b1"}

\* Listener registration: listeners are added, removed and receive datagrams
\* while the broadcast stays disabled
ListenerProps ==
  { [resourceDirectory |-> Str("/data"), ports |-> << Str("4000") >>,
     feeds |-> << FriendlyEntry >>, broadcast |-> << >>] }

NextListeners ==
  \/ \E l \in ExistingListeners \cup {NullListener} : AddMessageListener(l)
  \/ \E l \in ExistingListeners \cup {NullListener} : RemoveMessageListener(l)
  \/ \E l \in ExistingListeners, bytes \in ConfigDatagrams : ReceiveDatagram(l, bytes)
  \/ \E props \in ListenerProps : \E bind \in BindOutcomes(props) : SetProperties(props, bind)

SpecListeners == Init /\ [][NextListeners]_vars

\* Configuration: setProperties is applied with every combination of feed
\* entries, and with port and broadcast lists of every arity, and the
\* configured listeners receive datagrams
FeedEntries == {FriendlyEntry, HostileEntry, TwoPartEntry, FourPartEntry}
\* the lists of no, one and two entries
FeedLists ==
  {<< >>} \cup {<< a >> : a \in FeedEntries} \cup {<< a, b >> : a, b \in FeedEntries}
PortLists == {<< >>, << Str("4000") >>, << Str("4000"), Str("4001") >>}
BroadcastConfigs ==
  {<< Str("hostile") >>, << Str("friendly"), Str("4001") >>,
   << Str("hostile"), Str("4000"), Str("x") >>}

\* a configuration with every key: two ports, a malformed and a well-formed
\* feed entry, a broadcast configuration of two elements
FullProps ==
  [resourceDirectory |-> Str("/data"), ports |-> << Str("4000"), Str("4001") >>,
   feeds |-> << TwoPartEntry, HostileEntry >>,
   broadcast |-> << Str("hostile"), Str("4000") >>]

ConfigProps ==
  [resourceDirectory : {Str("/data")}, ports : {<< >>}, feeds : FeedLists,
   broadcast : {<< >>}]
  \cup
  [resourceDirectory : {Str("/data")}, ports : PortLists, feeds : {<< >>},
   broadcast : BroadcastConfigs]
  \cup
  {FullProps}

NextConfig ==
  \/ \E props \in ConfigProps : \E bind \in BindOutcomes(props) : SetProperties(props, bind)
  \/ \E l \in ExistingListeners, bytes \in ConfigDatagrams : ReceiveDatagram(l, bytes)

SpecConfig == Init /\ [][NextConfig]_vars

\* Renderers and feeds of one type: feeds are configured one entry at a time,
\* under changing resource directories, with named-standard and image
\* renderers and with types that repeat, while the broadcast frequency is set
\* and a listener receives datagrams
AllyEntry == << "Ally", ":", "friendly", ":", "mil2525d" >>
EnemyEntry == << "Enemy", ":", "hostile", ":", "MIL2525C" >>
BlueEntry == << "Blue", ":", "friendly", ":", "icon_b.png" >>
StyleEntries == {FriendlyEntry, AllyEntry, HostileEntry, EnemyEntry, BlueEntry}
ResourceDirectories == {Str("/data"), Str("/other")}

StyleProps ==
  [resourceDirectory : ResourceDirectories, ports : {<< >>},
   feeds : {<< e >> : e \in StyleEntries}, broadcast : {<< >>}]

NextStyles ==
  \/ \E l \in UserListeners : AddMessageListener(l)
  \/ \E props \in StyleProps : SetProperties(props, << >>)
  \/ \E f \in Frequencies : SetLocationBroadcastFrequency(f)
  \/ \E l \in ExistingListeners, bytes \in ConfigDatagrams : ReceiveDatagram(l, bytes)

SpecStyles == Init /\ [][NextStyles]_vars

\* Delivery order: one configuration creates two listeners and two feeds, and
\* the receipts and the addMessage calls of a bounded number of datagrams are
\* recorded
OrderProps ==
  { [resourceDirectory |-> Str("/data"), ports |-> << Str("4000"), Str("4001") >>,
     feeds |-> << FriendlyEntry, HostileEntry >>, broadcast |-> << >>] }

OrderDatagrams ==
  {Garbage} \cup
  {d \in Datagrams : d.decodes /\ d.id # NoId /\ (d.type = Str("hostile") => d.id = "b1")}

InitOrder == InitController /\ trace = [NoTrace EXCEPT !.on = TRUE]

NextOrder ==
  \/ \E props \in OrderProps : \E bind \in BindOutcomes(props) : SetProperties(props, bind)
  \/ \E l \in ExistingListeners, bytes \in OrderDatagrams : ReceiveDatagram(l, bytes)

SpecOrder == InitOrder /\ [][NextOrder]_vars

\* ================================================================ claims
HasFeedOfType(type) == \E i \in 1..Len(m_messageFeeds) : m_messageFeeds[i].feedMessageType = type
\* the last operation was a datagram that ran the slot at least once
Handled == ev.op = "receive" /\ Len(ev.outcomes) >= 1
SelfSent(bytes) == lbEnabled /\ bytes.id = lbMessageId

\* C1: a non-empty datagram handled by the slot is dropped as a self-broadcast
\* if and only if the broadcast is enabled and the message's identifier equals
\* the identifier of the broadcast's current message; when it is, no overlay
\* gets it even if a feed has its type, and when it is not and a feed has its
\* type, the overlay of a feed of that type gets it.
C1_SelfSuppressionExact ==
  (Handled /\ ev.bytes.decodes) =>
    \A k \in 1..Len(ev.outcomes) :
      LET o == ev.outcomes[k]
      IN /\ (o.result = "suppressed") <=> SelfSent(ev.bytes)
         /\ SelfSent(ev.bytes) => o.feed = 0
         /\ (~SelfSent(ev.bytes) /\ HasFeedOfType(ev.bytes.type)) =>
              /\ o.result = "added"
              /\ o.feed \in 1..Len(m_messageFeeds)
              /\ m_messageFeeds[o.feed].feedMessageType = ev.bytes.type

\* C1 witness: the broadcast is enabled and has sent X; a datagram with id X and
\* a type some feed has was handled (and suppressed)
C1_Witness_SuppressedDespiteFeed ==
  /\ Handled
  /\ ev.bytes.decodes
  /\ lbEnabled
  /\ ev.bytes.id = lbMessageId
  /\ lbMessageId # NoId
  /\ HasFeedOfType(ev.bytes.type)
  /\ \A k \in 1..Len(ev.outcomes) : ev.outcomes[k].result = "suppressed"

\* C2: adding the same listener twice does not duplicate delivery: a datagram
\* the listener receives runs the slot at most once and causes at most one
\* addMessage.
C2_RegistrationIdempotent ==
  ev.op = "receive" =>
    /\ Len(ev.outcomes) <= 1
    /\ Cardinality({k \in 1..Len(ev.outcomes) : ev.outcomes[k].result = "added"}) <= 1

\* a messageFeeds entry of exactly three colon-separated parts
IsWellFormedEntry(entry) == Len(Split(entry)) = 3
WellFormedEntries(entries) == SelectSeq(entries, IsWellFormedEntry)
EntryName(entry) == Split(entry)[1]
EntryType(entry) == Split(entry)[2]

\* C3 as stated: after setProperties one feed per well-formed entry has been
\* added, and each of these feeds is the one that lookup of its own type returns.
C3_EachFeedReturnedByLookup ==
  ev.op = "setProperties" =>
    LET n == Len(ev.before.feeds)
        wf == WellFormedEntries(ev.props.feeds)
    IN /\ Len(m_messageFeeds) = n + Len(wf)
       /\ \A k \in 1..Len(wf) :
            /\ m_messageFeeds[n + k].feedName = EntryName(wf[k])
            /\ m_messageFeeds[n + k].feedMessageType = EntryType(wf[k])
            /\ MessageFeedByType(m_messageFeeds, EntryType(wf[k])) = n + k

\* C3 amended: after setProperties one feed per well-formed entry has been
\* appended to the registry, in entry order, with the entry's name and type;
\* lookup of the entry's type returns a feed of that type, and returns the
\* entry's own feed when no other feed of the registry has that type.
C3_OneFeedPerEntryLookupByType ==
  ev.op = "setProperties" =>
    LET n == Len(ev.before.feeds)
        wf == WellFormedEntries(ev.props.feeds)
    IN /\ Len(m_messageFeeds) = n + Len(wf)
       /\ SubSeq(m_messageFeeds, 1, n) = ev.before.feeds
       /\ \A k \in 1..Len(wf) :
            LET found == MessageFeedByType(m_messageFeeds, EntryType(wf[k]))
            IN /\ m_messageFeeds[n + k].feedName = EntryName(wf[k])
               /\ m_messageFeeds[n + k].feedMessageType = EntryType(wf[k])
               /\ found \in 1..(n + Len(wf))
               /\ m_messageFeeds[found].feedMessageType = EntryType(wf[k])
               /\ (\A j \in 1..(n + Len(wf)) :
                     j # n + k => m_messageFeeds[j].feedMessageType # EntryType(wf[k]))
                  => found = n + k

\* C3 witness: a setProperties call whose list had two well-formed entries of
\* the same type, both now in the registry
C3_Witness_TwoEntriesOneType ==
  /\ ev.op = "setProperties"
  /\ \E i, j \in 1..Len(ev.props.feeds) :
       /\ i < j
       /\ IsWellFormedEntry(ev.props.feeds[i])
       /\ IsWellFormedEntry(ev.props.feeds[j])
       /\ EntryType(ev.props.feeds[i]) = EntryType(ev.props.feeds[j])
  /\ \E p, q \in 1..Len(m_messageFeeds) :
       p < q /\ m_messageFeeds[p].feedMessageType = m_messageFeeds[q].feedMessageType

\* C4: an entry that does not split into exactly three parts adds no feed, and
\* the registry after the call is the one the same list gives with the
\* malformed entries removed.
C4_MalformedEntriesSkipped ==
  ev.op = "setProperties" =>
    LET wf == WellFormedEntries(ev.props.feeds)
    IN /\ Len(m_messageFeeds) = Len(ev.before.feeds) + Len(wf)
       /\ m_messageFeeds = AddConfiguredFeeds(wf, m_resourcePath, ev.before).feeds

\* C4 witness: a setProperties call whose list had a malformed entry before a
\* well-formed one, and the well-formed one's feed is the last of the registry
C4_Witness_MalformedBeforeWellFormed ==
  /\ ev.op = "setProperties"
  /\ Len(ev.props.feeds) = 2
  /\ ~IsWellFormedEntry(ev.props.feeds[1])
  /\ IsWellFormedEntry(ev.props.feeds[2])
  /\ Len(m_messageFeeds) >= 1
  /\ m_messageFeeds[Len(m_messageFeeds)].feedName = EntryName(ev.props.feeds[2])

\* C5: a datagram that gives an empty Message is never forwarded: every run of
\* the slot on it returns without addMessage, whatever feeds are registered and
\* whether the broadcast is enabled or not.
C5_EmptyNeverForwarded ==
  (ev.op = "receive" /\ IsEmpty(MessageCreate(ev.bytes))) =>
    \A k \in 1..Len(ev.outcomes) :
      ev.outcomes[k].result = "empty" /\ ev.outcomes[k].feed = 0

\* C5 witness: an undecodable datagram was handled while a feed has the empty
\* Message's type and the broadcast's current identifier differs from its id
C5_Witness_EmptyWithMatchingFeed ==
  /\ Handled
  /\ IsEmpty(MessageCreate(ev.bytes))
  /\ HasFeedOfType(EmptyMessage.messageType)
  /\ lbEnabled
  /\ lbMessageId # EmptyMessage.messageId

\* C6: a non-empty message that is not suppressed goes to the overlay of the
\* feed that lookup of its type returns, a feed of that type, and to no other;
\* when no feed has its type, no overlay gets it.
C6_RoutedByTypeOnly ==
  (Handled /\ ev.bytes.decodes /\ ~SelfSent(ev.bytes)) =>
    \A k \in 1..Len(ev.outcomes) :
      LET o == ev.outcomes[k]
          found == MessageFeedByType(m_messageFeeds, ev.bytes.type)
      IN IF HasFeedOfType(ev.bytes.type)
         THEN /\ o.result = "added"
              /\ o.feed = found
              /\ m_messageFeeds[o.feed].feedMessageType = ev.bytes.type
              /\ o.message = MessageCreate(ev.bytes)
         ELSE o.result = "nofeed" /\ o.feed = 0

\* C6 witness: with the single feed Friendly:friendly:icon_a.png and the
\* broadcast disabled, a message of type "hostile" was handled and reached no
\* overlay
C6_Witness_HostileDropped ==
  /\ Handled
  /\ ev.bytes.decodes
  /\ ev.bytes.type = Str("hostile")
  /\ ~lbEnabled
  /\ Len(m_messageFeeds) = 1
  /\ m_messageFeeds[1].feedName = Str("Friendly")
  /\ m_messageFeeds[1].feedMessageType = Str("friendly")
  /\ \A k \in 1..Len(ev.outcomes) : ev.outcomes[k].feed = 0

\* C7: once the broadcast has sent X and then Y, X # Y, and is enabled, a
\* message with id Y is suppressed and a message with id X is not: it goes to
\* the feed of its type, if there is one.
C7_OnlyLastSentSuppressed ==
  (Handled /\ ev.bytes.decodes /\ lbEnabled
     /\ prevSentId # NoId /\ prevSentId # lbMessageId) =>
    \A k \in 1..Len(ev.outcomes) :
      LET o == ev.outcomes[k]
      IN /\ ev.bytes.id = lbMessageId => o.result = "suppressed" /\ o.feed = 0
         /\ ev.bytes.id = prevSentId =>
              /\ o.result # "suppressed"
              /\ HasFeedOfType(ev.bytes.type) =>
                   /\ o.result = "added"
                   /\ m_messageFeeds[o.feed].feedMessageType = ev.bytes.type

\* C7 witness: after X then Y were sent, a message with id X was handled and
\* added to the overlay of the feed of its type
C7_Witness_PreviousIdRouted ==
  /\ Handled
  /\ ev.bytes.decodes
  /\ lbEnabled
  /\ prevSentId # NoId
  /\ prevSentId # lbMessageId
  /\ ev.bytes.id = prevSentId
  /\ \A k \in 1..Len(ev.outcomes) : ev.outcomes[k].result = "added"

\* C8: setLocationBroadcastEnabled(v) with v the current state changes nothing
\* of the broadcast and emits no locationBroadcastEnabledChanged; with another
\* v it sets the state to v and emits exactly one; over any run the number of
\* notifications equals the number of changes of the state.
C8_EnableIdempotent ==
  /\ [](enabledChangedCount = flipCount)
  /\ [][ev'.op = "setLocationBroadcastEnabled" =>
          /\ UNCHANGED << lbMessageId, lbFrequency, lbMessageType, lbUdpPort >>
          /\ IF ev'.flag = lbEnabled
             THEN /\ lbEnabled' = lbEnabled
                  /\ ev'.emitted = << >>
                  /\ enabledChangedCount' = enabledChangedCount
             ELSE /\ lbEnabled' = ev'.flag
                  /\ ev'.emitted = << "locationBroadcastEnabledChanged" >>
                  /\ enabledChangedCount' = enabledChangedCount + 1]_vars

\* C8 witness: a call with the value the broadcast already had, after the state
\* had changed once: nothing emitted
C8_Witness_RepeatedEnable ==
  /\ ev.op = "setLocationBroadcastEnabled"
  /\ ev.flag = TRUE
  /\ lbEnabled
  /\ ev.emitted = << >>
  /\ flipCount = 1
  /\ enabledChangedCount = 1

\* C9: while the broadcast is disabled, and from a call that disables it until
\* the next call, no broadcast is sent and the identifier of its current
\* message does not change.
C9_NoSendWhileDisabled ==
  [][(~lbEnabled \/ ~requestedEnabled) =>
       (lbMessageId' = lbMessageId /\ prevSentId' = prevSentId
        /\ ev'.op # "broadcastSend")]_vars

\* C9 witness: the broadcast was enabled, sent a message, and has just been
\* disabled
C9_Witness_DisabledAfterSend ==
  /\ ev.op = "setLocationBroadcastEnabled"
  /\ ev.flag = FALSE
  /\ ev.emitted # << >>
  /\ ~lbEnabled
  /\ lbMessageId # NoId

\* C10: once removeMessageListener(L) has returned and until L is added again,
\* L has no connection to the controller and a datagram L receives runs no
\* slot, however often L had been added before.
C10_RemoveIsBarrier ==
  /\ \A l \in removedSince : connections[l] = 0
  /\ (ev.op = "receive" /\ ev.listener \in removedSince) => ev.outcomes = << >>

\* C10 witness: L was added twice and removed once (it is still in the list),
\* then received a datagram of a type that has a feed
C10_Witness_ReceiveAfterRemove ==
  /\ ev.op = "receive"
  /\ ev.listener \in removedSince
  /\ Count(m_messageListeners, ev.listener) >= 1
  /\ ev.bytes.decodes
  /\ HasFeedOfType(ev.bytes.type)

\* C11: removeMessageListener(L) with L not in the listener list (never added,
\* already removed, or null) changes nothing: the listener list, the
\* connections of every listener, the feed registry, the resource path and
\* the broadcast state are what they were before the call.
C11_RemoveUnregisteredNoOp ==
  [][(ev'.op = "removeMessageListener" /\ Count(m_messageListeners, ev'.listener) = 0) =>
       /\ m_messageListeners' = m_messageListeners
       /\ \A l \in AllListeners : connections'[l] = connections[l]
       /\ UNCHANGED << sockets, m_messageFeeds, m_resourcePath,
                       lbEnabled, lbMessageId, lbFrequency, lbMessageType, lbUdpPort,
                       styleMil2525c, styleMil2525d, enabledChangedCount >>]_vars

\* C11 witness: a listener that was not in the list when the call was made
\* has been removed while another listener is registered and connected
C11_Witness_RemoveUnregistered ==
  /\ ev.op = "removeMessageListener"
  /\ ev.listener # NullListener
  /\ Count(ev.reg.list, ev.listener) = 0
  /\ \E l \in AllListeners :
       /\ l # ev.listener
       /\ Count(m_messageListeners, l) >= 1
       /\ connections[l] >= 1

\* C12: after a setProperties call the listeners that earlier calls created
\* are gone: none of them is in the listener list and none is connected to
\* ingestion, so the created listeners that are registered are those of the
\* ports of this call only.
C12_EarlierListenersDestroyed ==
  ev.op = "setProperties" =>
    \A k \in 1..(Len(sockets) - Len(ev.props.ports)) :
      /\ Count(m_messageListeners, CreatedListener(k)) = 0
      /\ connections[CreatedListener(k)] = 0

\* C13: when several feeds have one type, a routed message of that type goes
\* to the overlay of the feed registered last among them and to no older one;
\* the older feeds stay in the registry, in their places.
C13_LastRegisteredWins ==
  /\ ev.op = "receive" =>
       \A k \in 1..Len(ev.outcomes) :
         ev.outcomes[k].result = "added" =>
           /\ m_messageFeeds[ev.outcomes[k].feed].feedMessageType = ev.bytes.type
           /\ \A j \in 1..Len(m_messageFeeds) :
                m_messageFeeds[j].feedMessageType = ev.bytes.type => j <= ev.outcomes[k].feed
  /\ ev.op = "setProperties" =>
       /\ Len(ev.before.feeds) <= Len(m_messageFeeds)
       /\ SubSeq(m_messageFeeds, 1, Len(ev.before.feeds)) = ev.before.feeds

\* C13 witness: two feeds of different names and one type are registered, and
\* a message of that type was added to the overlay of the second
C13_Witness_TwoFeedsOneType ==
  /\ Handled
  /\ Len(m_messageFeeds) = 2
  /\ m_messageFeeds[1].feedMessageType = ev.bytes.type
  /\ m_messageFeeds[2].feedMessageType = ev.bytes.type
  /\ m_messageFeeds[1].feedName # m_messageFeeds[2].feedName
  /\ \A k \in 1..Len(ev.outcomes) :
       ev.outcomes[k].result = "added" /\ ev.outcomes[k].feed = 2

\* C14: whichever of the configured ports fail to bind, setProperties creates
\* one socket and appends one connected listener per configured port, in port
\* order, appends one feed per well-formed entry, and applies a broadcast
\* configuration of two elements.
C14_BindFailureNotFatal ==
  ev.op = "setProperties" =>
    LET np == Len(ev.props.ports)
        s0 == Len(sockets) - np
        l0 == Len(ev.reg.list)
    IN /\ s0 >= 0
       /\ Len(m_messageListeners) = l0 + np
       /\ SubSeq(m_messageListeners, 1, l0) = ev.reg.list
       /\ \A i \in 1..np :
            /\ sockets[s0 + i] = [port |-> ToInt(ev.props.ports[i]), bound |-> ev.bind[i]]
            /\ m_messageListeners[l0 + i] = CreatedListener(s0 + i)
            /\ connections[CreatedListener(s0 + i)] = 1
       /\ Len(m_messageFeeds) =
            Len(ev.before.feeds) + Len(WellFormedEntries(ev.props.feeds))
       /\ Len(ev.props.broadcast) = 2 =>
            /\ lbMessageType = ev.props.broadcast[1]
            /\ lbUdpPort = ToInt(ev.props.broadcast[2])

\* C14 witness: a call with two ports, the first of which failed to bind, a
\* well-formed feed entry and a broadcast configuration of two elements
C14_Witness_FirstPortUnbound ==
  /\ ev.op = "setProperties"
  /\ Len(ev.props.ports) = 2
  /\ ev.bind = << FALSE, TRUE >>
  /\ WellFormedEntries(ev.props.feeds) # << >>
  /\ Len(ev.props.broadcast) = 2
  /\ Len(m_messageListeners) = 2
  /\ m_messageFeeds # << >>
  /\ lbUdpPort = 4000

\* C15: setProperties with a LocationBroadcastConfig list of a length other
\* than two leaves the broadcast's message type and port as they were, and
\* with a list of two elements sets the type to element 0 and the port to
\* element 1; either way the resource path, the listeners of the ports and the
\* feeds of the well-formed entries of the call are applied.
C15_BroadcastConfigArity ==
  [][ev'.op = "setProperties" =>
       /\ IF Len(ev'.props.broadcast) = 2
          THEN /\ lbMessageType' = ev'.props.broadcast[1]
               /\ lbUdpPort' = ToInt(ev'.props.broadcast[2])
          ELSE UNCHANGED << lbMessageType, lbUdpPort >>
       /\ m_resourcePath' = ev'.props.resourceDirectory
       /\ Len(m_messageListeners') = Len(m_messageListeners) + Len(ev'.props.ports)
       /\ Len(m_messageFeeds') =
            Len(m_messageFeeds) + Len(WellFormedEntries(ev'.props.feeds))]_vars

\* C15 witness: the broadcast had been configured with friendly and 4001, and
\* a call with a list of three other elements and one port has been applied:
\* the listener of the port is registered, type and port are the earlier ones
C15_Witness_ThreeElementsIgnored ==
  /\ ev.op = "setProperties"
  /\ Len(ev.props.broadcast) = 3
  /\ ev.props.broadcast[1] # lbMessageType
  /\ ToInt(ev.props.broadcast[2]) # lbUdpPort
  /\ lbMessageType = Str("friendly")
  /\ lbUdpPort = 4001
  /\ Len(ev.props.ports) = 1
  /\ Len(m_messageListeners) > Len(ev.reg.list)
  /\ m_resourcePath = Str("/data")

\* the renderer specification of a well-formed entry
EntryRenderer(entry) == Split(entry)[3]
NamesMil2525c(info) == EqualsIgnoreCase(info, Str("mil2525c"))
NamesMil2525d(info) == EqualsIgnoreCase(info, Str("mil2525d"))

RECURSIVE IsSubseq(_, _)
IsSubseq(a, b) ==
  IF a = << >> THEN TRUE
  ELSE IF b = << >> THEN FALSE
  ELSE IF Head(a) = Head(b) THEN IsSubseq(Tail(a), Tail(b))
  ELSE IsSubseq(a, Tail(b))

\* the messages added to the overlay of feed f by the slot runs of listener l,
\* and the messages of the datagrams l received, each in order
MessagesAdded(l, f) ==
  LET calls == SelectSeq(trace.added, LAMBDA t : t.listener = l /\ t.feed = f)
  IN [k \in 1..Len(calls) |-> calls[k].message]
MessagesReceived(l) ==
  LET got == SelectSeq(trace.receipts, LAMBDA r : r.listener = l)
  IN [k \in 1..Len(got) |-> MessageCreate(got[k].bytes)]
RegisteredOnce(l) == Count(m_messageListeners, l) = 1 /\ l \notin removedSince

\* C17: a datagram received by a listener that is registered once runs the
\* slot exactly once, on the message of that datagram, within the receipt; and
\* for a listener registered at most once the messages added to the overlay of
\* any one feed are, in order, messages of the datagrams it received with some
\* left out: none added twice, none out of order.
C17_DeliveryInReceiptOrder ==
  /\ (ev.op = "receive" /\ RegisteredOnce(ev.listener)) =>
       /\ Len(ev.outcomes) = 1
       /\ ev.outcomes[1].message = MessageCreate(ev.bytes)
  /\ trace.on =>
       \A l \in AllListeners :
         (Count(m_messageListeners, l) <= 1 /\ l \notin removedSince) =>
           /\ Len(SelectSeq(trace.added, LAMBDA t : t.listener = l))
                <= Len(MessagesReceived(l))
           /\ \A f \in 1..Len(m_messageFeeds) :
                IsSubseq(MessagesAdded(l, f), MessagesReceived(l))

\* C17 witness: a listener registered once received three datagrams, one of
\* them dropped, and the overlay of one feed got the two others, which differ,
\* in the order of receipt
C17_Witness_TwoOfThreeInOrder ==
  /\ trace.on
  /\ Len(trace.receipts) = 3
  /\ \E l \in AllListeners, f \in 1..Len(m_messageFeeds) :
       /\ RegisteredOnce(l)
       /\ Len(MessagesReceived(l)) = 3
       /\ Len(MessagesAdded(l, f)) = 2
       /\ MessagesAdded(l, f)[1] # MessagesAdded(l, f)[2]
       /\ MessagesAdded(l, f)[1] = MessagesReceived(l)[1]
       /\ MessagesAdded(l, f)[2] = MessagesReceived(l)[3]

\* C18: a listener is in messageListeners() as many times as the slot runs for
\* each of its datagrams: its count in the list equals its connections to the
\* controller, and a datagram it receives runs the slot that many times.
C18_ListMatchesDelivery ==
  /\ \A l \in AllListeners : Count(m_messageListeners, l) = connections[l]
  /\ ev.op = "receive" => Len(ev.outcomes) = Count(m_messageListeners, ev.listener)

\* C19: the receipt of a datagram, whatever the slot does with it, leaves the
\* feed registry, the listener list and its connections, the resource path
\* and the broadcast (enabled flag, frequency, current message, type, port)
\* as they were; a step that changes the registry is a setProperties call.
C19_IngestionReadOnly ==
  [][/\ ev'.op = "receive" =>
          UNCHANGED << m_messageFeeds, m_messageListeners, connections, sockets,
                       m_resourcePath, lbEnabled, lbFrequency, lbMessageId,
                       lbMessageType, lbUdpPort, enabledChangedCount >>
     /\ m_messageFeeds' # m_messageFeeds => ev'.op = "setProperties"]_vars

\* C19 witness: while the broadcast is enabled and has sent a message, one
\* listener's datagram of a type without a feed was dropped, with a feed of
\* another type registered
C19_Witness_NoFeedWhileBroadcasting ==
  /\ Handled
  /\ lbEnabled
  /\ lbMessageId # NoId
  /\ m_messageFeeds # << >>
  /\ ev.bytes.decodes
  /\ ev.bytes.id # lbMessageId
  /\ \A k \in 1..Len(ev.outcomes) : ev.outcomes[k].result = "nofeed"
====
